---- MODULE Spec2Model ----
(***************************************************************************)
(* The sentry adapter (components/sentry/src/lib.rs): the built-in camera  *)
(* exposed as a live-stream channel (fetch) and a recording channel        *)
(* (fetch / send On / send Off).                                           *)
(*                                                                         *)
(* State: the two mutex-guarded slots of Adapter (livestreamer, recorder), *)
(* the GStreamer pipelines created so far with the observer thread spawned *)
(* for each, and the request threads calling fetch_values / send_values.   *)
(* A std::sync::Mutex is modelled with its holder and its poison flag: a   *)
(* thread that panics while it holds a guard poisons the mutex, and every  *)
(* later lock().unwrap() on it panics.                                     *)
(* The calls into the gst crate (new_from_str, bus, play, get_by_name,     *)
(* set_null_state) are the environment: each outcome the call can have is  *)
(* a nondeterministic choice.                                              *)
(***************************************************************************)
EXTENDS Integers, Sequences, FiniteSets, TLC

\* ------------------------------------------------------------------ bounds
NumThreads == 2       \* request threads calling the adapter concurrently
MaxRequests == 3      \* requests (one channel entry each) issued in a run
MaxPort == 2          \* the backend allocates a port in 1..MaxPort

Threads == 1..NumThreads
Ports == 1..MaxPort

\* ------------------------------------------------------------------ values
\* The entries of a fetch_values / send_values batch.
\* FetchOther stands for a fetch of any id that is neither the live-stream id
\* nor the recording id, SendOther for a send to any id that is not the
\* recording id (the live-stream id included): the code takes the same
\* branch for all of them.
Ops == {"FetchLive", "FetchRec", "FetchOther",
        "SendOn", "SendOff", "SendBad", "SendOther"}

NoThread == 0         \* a mutex nobody holds
Observer == -1        \* the inner mutex held by the pipeline's observer thread
NoPipe == 0           \* Option::None in the recorder slot / no local pipeline
NoVideo == <<>>       \* Option::None in the livestreamer slot

Html5Video(port) == <<port>>

\* The result of an entry: Ok(()), Ok(Some(OnOff)), Ok(Some(Html5Video)), Err.
OkUnit == [kind |-> "Ok", val |-> "unit", port |-> 0]
OkValue(v) == [kind |-> "Ok", val |-> v, port |-> 0]
OkVideo(video) == [kind |-> "Ok", val |-> "video", port |-> video[1]]
Err(e) == [kind |-> "Err", val |-> e, port |-> 0]
NoResult == [kind |-> "None", val |-> "none", port |-> 0]

VARIABLES
    livestreamer,   \* Adapter.livestreamer: NoVideo or Html5Video(port)
    liveLock,       \* holder of the livestreamer mutex
    livePoisoned,   \* poison flag of the livestreamer mutex
    recorder,       \* Adapter.recorder: NoPipe or the index of a pipeline
    recLock,        \* holder of the recorder mutex
    recPoisoned,    \* poison flag of the recorder mutex
    pipes,          \* the pipelines constructed so far, in order of creation
    pc,             \* position of each request thread
    op,             \* the request each thread is serving (or served last)
    loc,            \* the pipeline held in the thread's local variable
    last,           \* the result the thread's last request returned
    nReq,           \* entries issued so far
    lastAcq,        \* the last send-On / send-Off to acquire the recorder mutex
    asked,          \* the channel ids of the thread's batch handed out so far
    res             \* the keys of the result map collected for the thread's batch

vars == <<livestreamer, liveLock, livePoisoned, recorder, recLock, recPoisoned,
          pipes, pc, op, loc, last, nReq, lastAcq, asked, res>>

liveVars == <<livestreamer, liveLock, livePoisoned>>
recVars == <<recorder, recLock, recPoisoned, lastAcq>>

\* A pipeline just returned by gst::Pipeline::new_from_str: not started, its
\* observer not yet spawned.
NewPipe(role) ==
    [role |-> role,            \* "live" | "record"
     state |-> "null",         \* "null" | "playing"
     inner |-> NoThread,       \* holder of the Mutex around a record pipeline
     innerPoisoned |-> FALSE,
     plays |-> 0,              \* play() calls performed
     nullCalls |-> 0,          \* set_null_state() calls performed
     nullFailed |-> FALSE,     \* a set_null_state() reported failure
     obs |-> "none",           \* position of the observer thread
     chan |-> <<>>,            \* the ports in the channel of Html5Video::new
     tx |-> TRUE]              \* the channel's sender is alive

PipeIds == 1..Len(pipes)

Init ==
    /\ livestreamer = NoVideo
    /\ liveLock = NoThread
    /\ livePoisoned = FALSE
    /\ recorder = NoPipe
    /\ recLock = NoThread
    /\ recPoisoned = FALSE
    /\ pipes = <<>>
    /\ pc = [t \in Threads |-> "idle"]
    /\ op = [t \in Threads |-> "none"]
    /\ loc = [t \in Threads |-> NoPipe]
    /\ last = [t \in Threads |-> NoResult]
    /\ nReq = 0
    /\ lastAcq = "none"
    /\ asked = [t \in Threads |-> {}]
    /\ res = [t \in Threads |-> {}]

\* ------------------------------------------------------------- request threads
\* Where the handler of an entry that takes a mutex starts.
Entry(o) ==
    CASE o = "FetchLive" -> "fl_lock"
      [] o = "FetchRec" -> "fr_lock"
      [] o = "SendOn" -> "on_lock"
      [] o = "SendOff" -> "off_lock"


\* The channel id an entry addresses.
ChanOf(o) ==
    CASE o = "FetchLive" -> "live"
      [] o \in {"FetchRec", "SendOn", "SendOff", "SendBad"} -> "rec"
      [] o \in {"FetchOther", "SendOther"} -> "other"

FetchOps == {"FetchLive", "FetchRec", "FetchOther"}
SendOps == Ops \ FetchOps

\* The entries whose handler takes a mutex; the others return at once.
LockingOps == {"FetchLive", "FetchRec", "SendOn", "SendOff"}

\* The iterator of target.drain(..).map hands entry o to the closure: the
\* first entry of a batch, or a further entry of the same batch: any id of a
\* fetch (a Vec may repeat an id); of a send, whose keys are distinct, the
\* recording id if not yet seen, or one more of the other ids. The request
\* threads are anonymous: they are numbered in the order of their first call.
Hand(t, o, first) ==
    /\ pc[t] = "idle"
    /\ nReq < MaxRequests
    /\ \A u \in Threads : u < t => op[u] # "none"
    /\ \/ first
       \/ op[t] \in FetchOps /\ o \in FetchOps
       \/ op[t] \in SendOps /\ o \in SendOps
          /\ (ChanOf(o) = "rec" => "rec" \notin asked[t])
    /\ nReq' = nReq + 1
    /\ op' = [op EXCEPT ![t] = o]
    /\ loc' = [loc EXCEPT ![t] = NoPipe]
    /\ asked' = [asked EXCEPT ![t] = (IF first THEN {} ELSE @) \cup {ChanOf(o)}]

\* A request thread enters fetch_values / send_values and the closure starts
\* on the first entry of the batch.
Begin(t, o) ==
    /\ o \in LockingOps
    /\ Hand(t, o, TRUE)
    /\ pc' = [pc EXCEPT ![t] = Entry(o)]
    /\ last' = [last EXCEPT ![t] = NoResult]
    /\ res' = [res EXCEPT ![t] = {}]
    /\ UNCHANGED <<liveVars, recVars, pipes>>

\* The closure starts on a further entry of the batch.
NextEntry(t, o) ==
    /\ o \in LockingOps
    /\ Hand(t, o, FALSE)
    /\ pc' = [pc EXCEPT ![t] = Entry(o)]
    /\ last' = [last EXCEPT ![t] = NoResult]
    /\ UNCHANGED <<liveVars, recVars, pipes, res>>

\* collect(): the pair (id, r) enters the result map, of which the keys are
\* kept; r is the thread's `last`.
Collect(m, id) == m \cup {id}

\* The closure returns (id, r) for the entry.
Return(t, r) ==
    /\ pc' = [pc EXCEPT ![t] = "idle"]
    /\ last' = [last EXCEPT ![t] = r]
    /\ res' = [res EXCEPT ![t] = Collect(@, ChanOf(op[t]))]

\* The closure is handed an entry (first of its batch or not) that touches
\* no state of the adapter, and returns (id, r) for it.
Immediate(t, o, r) ==
    /\ \E first \in BOOLEAN :
         /\ Hand(t, o, first)
         /\ res' = [res EXCEPT
               ![t] = Collect(IF first THEN {} ELSE @, ChanOf(o))]
    /\ last' = [last EXCEPT ![t] = r]
    /\ UNCHANGED <<liveVars, recVars, pipes, pc>>

\* The thread unwinds from a panic (unwrap / expect on a failure): the
\* results collected so far for its batch are dropped.
Panic(t) ==
    /\ pc' = [pc EXCEPT ![t] = "panicked"]
    /\ res' = [res EXCEPT ![t] = {}]
    /\ UNCHANGED last

\* Variant: one mutex guards the whole adapter.
RecorderFree_Global == recLock = NoThread /\ liveLock = NoThread

\* self.recorder.lock() can be acquired.
RecorderFree == recLock = NoThread

\* self.livestreamer.lock() can be acquired.
SessionFree == liveLock = NoThread

\* Variant: the "already recording" test never succeeds.
AlreadyRecording_Never(slot) == FALSE

\* `if let Some(_) = *lock`: the recorder slot already holds a pipeline.
AlreadyRecording(slot) == slot # NoPipe

\* Variant: the slot is read but not cleared (as_ref / clone instead of take).
Take_Keep(slot) == slot

\* What Option::take leaves in the recorder slot.
Take(slot) == NoPipe

\* The result of a send-Off that found the slot empty.
AlreadyStoppedResult == OkUnit

\* Variant: the result of set_null_state is returned to the caller.
StoppedResult_Propagate(ok) == IF ok THEN OkUnit ELSE Err("StopFailed")

\* The result of a send-Off that stopped a pipeline; `ok` is what
\* set_null_state reported, which `let _ =` discards.
StoppedResult(ok) == OkUnit

\* send On: lock the recorder and look at the slot.
SendOnLock(t) ==
    /\ pc[t] = "on_lock"
    /\ RecorderFree
    /\ IF recPoisoned
         THEN /\ Panic(t)
              /\ UNCHANGED recVars
         ELSE /\ lastAcq' = "On"
              /\ IF AlreadyRecording(recorder)
                   THEN /\ Return(t, OkUnit)
                        /\ UNCHANGED <<recorder, recLock, recPoisoned>>
                   ELSE /\ recLock' = t
                        /\ pc' = [pc EXCEPT ![t] = "on_new"]
                        /\ UNCHANGED <<recorder, recPoisoned, last, res>>
    /\ UNCHANGED <<liveVars, pipes, op, loc, nReq, asked>>

\* send On: gst::Pipeline::new_from_str(&spec).unwrap(), recorder locked.
SendOnNew(t) ==
    /\ pc[t] = "on_new"
    /\ \E ok \in BOOLEAN :
         IF ok
           THEN /\ pipes' = Append(pipes, NewPipe("record"))
                /\ loc' = [loc EXCEPT ![t] = Len(pipes) + 1]
                /\ pc' = [pc EXCEPT ![t] = "on_bus"]
                /\ UNCHANGED <<recVars, last, res>>
           ELSE /\ Panic(t)
                /\ recPoisoned' = TRUE
                /\ recLock' = NoThread
                /\ UNCHANGED <<recorder, lastAcq, pipes, loc>>
    /\ UNCHANGED <<liveVars, op, nReq, asked>>

\* send On: pipeline.lock().unwrap().bus().expect(..), recorder locked. The
\* inner guard is alive when expect panics, so both mutexes are poisoned.
SendOnBus(t) ==
    /\ pc[t] = "on_bus"
    /\ \E ok \in BOOLEAN :
         IF ok
           THEN /\ pc' = [pc EXCEPT ![t] = "on_store"]
                /\ UNCHANGED <<recVars, pipes, last, res>>
           ELSE /\ Panic(t)
                /\ pipes' = [pipes EXCEPT ![loc[t]].innerPoisoned = TRUE]
                /\ recPoisoned' = TRUE
                /\ recLock' = NoThread
                /\ UNCHANGED <<recorder, lastAcq>>
    /\ UNCHANGED <<liveVars, op, loc, nReq, asked>>

\* send On: store the pipeline in the slot, spawn its observer thread, return
\* Ok(()) and drop the recorder guard.
SendOnStore(t) ==
    /\ pc[t] = "on_store"
    /\ recorder' = loc[t]
    /\ pipes' = [pipes EXCEPT ![loc[t]].obs = "o_start"]
    /\ recLock' = NoThread
    /\ Return(t, OkUnit)
    /\ UNCHANGED <<liveVars, recPoisoned, lastAcq, op, loc, nReq, asked>>

\* send Off: self.recorder.lock().unwrap().take(). The guard is a temporary of
\* the match scrutinee: it lives until the end of the match.
SendOffLock(t) ==
    /\ pc[t] = "off_lock"
    /\ RecorderFree
    /\ IF recPoisoned
         THEN /\ Panic(t)
              /\ UNCHANGED <<recVars, loc>>
         ELSE /\ lastAcq' = "Off"
              /\ IF recorder = NoPipe
                   THEN /\ Return(t, AlreadyStoppedResult)
                        /\ UNCHANGED <<recorder, recLock, recPoisoned, loc>>
                   ELSE /\ loc' = [loc EXCEPT ![t] = recorder]
                        /\ recorder' = Take(recorder)
                        /\ recLock' = t
                        /\ pc' = [pc EXCEPT ![t] = "off_stop"]
                        /\ UNCHANGED <<recPoisoned, last, res>>
    /\ UNCHANGED <<liveVars, pipes, op, nReq, asked>>

\* send Off: pipeline.lock().unwrap(), with the recorder guard still held; it
\* blocks while the observer thread holds the inner mutex.
SendOffStop(t) ==
    /\ pc[t] = "off_stop"
    /\ pipes[loc[t]].inner = NoThread
    /\ IF pipes[loc[t]].innerPoisoned
         THEN /\ Panic(t)
              /\ recPoisoned' = TRUE
              /\ recLock' = NoThread
              /\ UNCHANGED pipes
         ELSE /\ pipes' = [pipes EXCEPT ![loc[t]].inner = t]
              /\ pc' = [pc EXCEPT ![t] = "off_null"]
              /\ UNCHANGED <<recPoisoned, recLock, last, res>>
    /\ UNCHANGED <<liveVars, recorder, lastAcq, op, loc, nReq, asked>>

\* send Off: set_null_state(), its result discarded, then Ok(()); the inner
\* guard and the recorder guard are dropped.
SendOffNull(t) ==
    /\ pc[t] = "off_null"
    /\ \E ok \in BOOLEAN :
         /\ pipes' = [pipes EXCEPT
               ![loc[t]].nullCalls = @ + 1,
               ![loc[t]].state = IF ok THEN "null" ELSE @,
               ![loc[t]].nullFailed = @ \/ ~ok,
               ![loc[t]].inner = NoThread]
         /\ Return(t, StoppedResult(ok))
    /\ recLock' = NoThread
    /\ UNCHANGED <<liveVars, recorder, recPoisoned, lastAcq, op, loc, nReq, asked>>

\* fetch of the recording channel: read the slot under the recorder mutex.
FetchRec(t) ==
    /\ pc[t] = "fr_lock"
    /\ RecorderFree
    /\ IF recPoisoned
         THEN Panic(t)
         ELSE Return(t, OkValue(IF recorder = NoPipe THEN "Off" ELSE "On"))
    /\ UNCHANGED <<liveVars, recVars, pipes, op, loc, nReq, asked>>

\* Variant: an unsupported id is reported as a success.
NotSupported_Ok == OkUnit

\* Err(Error::OperationNotSupported(..)).
NotSupported == Err("OperationNotSupported")

\* Variant: the cast error is swallowed.
CastError_Ok == OkUnit

\* The Err of value.cast::<OnOff>().
CastError == Err("TypeError")

\* fetch of a channel that is neither the live stream nor the recording.
FetchOther(t) == Immediate(t, "FetchOther", NotSupported)

\* send to the recording channel of a value that is no OnOff.
SendBad(t) == Immediate(t, "SendBad", CastError)

\* send to a channel other than the recording channel (the live-stream
\* channel included).
SendOther(t) == Immediate(t, "SendOther", NotSupported)

\* Variant: the cached descriptor is never reused.
CachedVideo_Never(slot) == FALSE

\* `if let Some(ref video) = *lock`: the live session holds a descriptor.
CachedVideo(slot) == slot # NoVideo

\* fetch of the live stream: lock the session and reuse the descriptor.
FetchLiveLock(t) ==
    /\ pc[t] = "fl_lock"
    /\ SessionFree
    /\ IF livePoisoned
         THEN /\ Panic(t)
              /\ UNCHANGED liveVars
         ELSE IF CachedVideo(livestreamer)
           THEN /\ Return(t, OkVideo(livestreamer))
                /\ UNCHANGED liveVars
           ELSE /\ liveLock' = t
                /\ pc' = [pc EXCEPT ![t] = "fl_new"]
                /\ UNCHANGED <<livestreamer, livePoisoned, last, res>>
    /\ UNCHANGED <<recVars, pipes, op, loc, nReq, asked>>

\* Html5Video::new: gst::Pipeline::new_from_str(&spec).unwrap(), session locked.
FetchLiveNew(t) ==
    /\ pc[t] = "fl_new"
    /\ \E ok \in BOOLEAN :
         IF ok
           THEN /\ pipes' = Append(pipes, NewPipe("live"))
                /\ loc' = [loc EXCEPT ![t] = Len(pipes) + 1]
                /\ pc' = [pc EXCEPT ![t] = "fl_bus"]
                /\ UNCHANGED <<liveVars, last, res>>
           ELSE /\ Panic(t)
                /\ livePoisoned' = TRUE
                /\ liveLock' = NoThread
                /\ UNCHANGED <<livestreamer, pipes, loc>>
    /\ UNCHANGED <<recVars, op, nReq, asked>>

\* Html5Video::new: pipeline.bus().expect(..), then the channel is created and
\* the observer thread spawned.
FetchLiveBus(t) ==
    /\ pc[t] = "fl_bus"
    /\ \E ok \in BOOLEAN :
         IF ok
           THEN /\ pipes' = [pipes EXCEPT ![loc[t]].obs = "o_start"]
                /\ pc' = [pc EXCEPT ![t] = "fl_recv"]
                /\ UNCHANGED <<liveVars, last, res>>
           ELSE /\ Panic(t)
                /\ livePoisoned' = TRUE
                /\ liveLock' = NoThread
                /\ UNCHANGED <<livestreamer, pipes>>
    /\ UNCHANGED <<recVars, op, loc, nReq, asked>>

\* Html5Video::new: rx.recv().unwrap() blocks until the observer sends the
\* port or drops the sender; then the descriptor is stored and returned.
FetchLiveRecv(t) ==
    /\ pc[t] = "fl_recv"
    /\ pipes[loc[t]].chan # <<>> \/ ~pipes[loc[t]].tx
    /\ IF pipes[loc[t]].chan = <<>>
         THEN /\ Panic(t)
              /\ livePoisoned' = TRUE
              /\ UNCHANGED <<livestreamer, pipes>>
         ELSE /\ livestreamer' = Html5Video(Head(pipes[loc[t]].chan))
              /\ Return(t, OkVideo(Html5Video(Head(pipes[loc[t]].chan))))
              /\ pipes' = [pipes EXCEPT ![loc[t]].chan = Tail(@)]
              /\ UNCHANGED livePoisoned
    /\ liveLock' = NoThread
    /\ UNCHANGED <<recVars, op, loc, nReq, asked>>

\* ------------------------------------------------------------ observer threads
\* The spawned closure starts: mainloop.spawn(), and for a record pipeline the
\* lock of the Mutex around it.
ObsStart(p) ==
    /\ p \in PipeIds
    /\ pipes[p].obs = "o_start"
    /\ pipes[p].inner = NoThread
    /\ pipes' = [pipes EXCEPT
          ![p].obs = "o_play",
          ![p].inner = IF pipes[p].role = "record" THEN Observer ELSE @]
    /\ UNCHANGED <<liveVars, recVars, pc, op, loc, last, res, nReq, asked>>

\* Variant: the inner guard outlives the call of play().
ObsPlay_KeepGuard(p) ==
    /\ p \in PipeIds
    /\ pipes[p].obs = "o_play"
    /\ \E out \in {"ok", "fail", "hang"} :
         pipes' = [pipes EXCEPT
            ![p].plays = @ + 1,
            ![p].state = IF out = "ok" THEN "playing" ELSE @,
            ![p].obs = IF out = "hang" THEN "o_hung"
                       ELSE IF pipes[p].role = "live" THEN "o_port"
                       ELSE "o_loop"]
    /\ UNCHANGED <<liveVars, recVars, pc, op, loc, last, res, nReq, asked>>

\* pipeline.play(): the backend starts the pipeline, fails to, or never
\* returns; the inner guard is dropped when the call returns.
ObsPlay(p) ==
    /\ p \in PipeIds
    /\ pipes[p].obs = "o_play"
    /\ \E out \in {"ok", "fail", "hang"} :
         pipes' = [pipes EXCEPT
            ![p].plays = @ + 1,
            ![p].state = IF out = "ok" THEN "playing" ELSE @,
            ![p].inner = IF out = "hang" THEN @ ELSE NoThread,
            ![p].obs = IF out = "hang" THEN "o_hung"
                       ELSE IF pipes[p].role = "live" THEN "o_port"
                       ELSE "o_loop"]
    /\ UNCHANGED <<liveVars, recVars, pc, op, loc, last, res, nReq, asked>>

\* Live pipeline: get_by_name("server").unwrap(), read current-port and send
\* it; a panic drops the sender.
ObsPort(p) ==
    /\ p \in PipeIds
    /\ pipes[p].obs = "o_port"
    /\ \/ \E port \in Ports :
            pipes' = [pipes EXCEPT ![p].chan = Append(@, port),
                                   ![p].obs = "o_loop"]
       \/ pipes' = [pipes EXCEPT ![p].tx = FALSE, ![p].obs = "o_panicked"]
    /\ UNCHANGED <<liveVars, recVars, pc, op, loc, last, res, nReq, asked>>

\* Variant: the observer clears the recording slot when its pipeline ends.
ObsMessage_Cleanup(p) ==
    /\ p \in PipeIds
    /\ pipes[p].obs = "o_loop"
    /\ pipes' = [pipes EXCEPT ![p].obs = "o_done"]
    /\ recorder' = IF recorder = p THEN NoPipe ELSE recorder
    /\ UNCHANGED <<liveVars, recLock, recPoisoned, lastAcq,
                   pc, op, loc, last, res, nReq, asked>>

\* One message of bus.receiver().iter() that breaks the loop: an error or an
\* end-of-stream (mainloop.quit(), the thread ends). Any other message is
\* logged and changes nothing: a stuttering step.
ObsMessage(p) ==
    /\ p \in PipeIds
    /\ pipes[p].obs = "o_loop"
    /\ \E m \in {"Error", "Eos"} :
         pipes' = [pipes EXCEPT ![p].obs = "o_done"]
    /\ UNCHANGED <<liveVars, recVars, pc, op, loc, last, res, nReq, asked>>

\* ---------------------------------------------------------------- specification
Step(t) ==
    \/ SendOnLock(t) \/ SendOnNew(t) \/ SendOnBus(t) \/ SendOnStore(t)
    \/ SendOffLock(t) \/ SendOffStop(t) \/ SendOffNull(t)
    \/ FetchRec(t)
    \/ FetchLiveLock(t) \/ FetchLiveNew(t) \/ FetchLiveBus(t) \/ FetchLiveRecv(t)

ObsStep(p) == ObsStart(p) \/ ObsPlay(p) \/ ObsPort(p)

Next ==
    \/ \E t \in Threads, o \in Ops : Begin(t, o) \/ NextEntry(t, o)
    \/ \E t \in Threads : FetchOther(t) \/ SendBad(t) \/ SendOther(t)
    \/ \E t \in Threads : Step(t)
    \/ \E p \in 1..MaxRequests : ObsStep(p) \/ ObsMessage(p)

Spec == Init /\ [][Next]_vars

\* The scheduler runs every thread that can take a step; the arrival of
\* requests and of bus messages is left to the environment.
FairSpec ==
    /\ Spec
    /\ \A t \in Threads : WF_vars(Step(t))
    /\ \A p \in 1..MaxRequests : WF_vars(ObsStep(p))

\* ------------------------------------------------------------------ properties
Playing(role) == {p \in PipeIds : pipes[p].role = role /\ pipes[p].state = "playing"}
Created(role) == {p \in PipeIds : pipes[p].role = role}

\* The positions of a send-Off between take() and its return.
Stopping == {"off_stop", "off_null"}

\* A request thread that has returned from a send-Off which took pipeline p
\* out of the slot.
StoppedBy(t, p) ==
    /\ op[t] = "SendOff"
    /\ pc[t] = "idle"
    /\ loc[t] = p
    /\ p # NoPipe

\* C1: in every reachable state at most one record pipeline and at most one
\* live pipeline is playing.
C1_AtMostOneRunning ==
    /\ Cardinality(Playing("record")) <= 1
    /\ Cardinality(Playing("live")) <= 1

\* C2: a send-On that finds a pipeline in the recorder slot returns Ok(())
\* without constructing a pipeline and leaves the slot as it is; hence every
\* record pipeline that was stored and is no longer in the slot was taken out
\* by a send-Off (send-On alone never creates a second one).
C2_IdempotentStart ==
    /\ [][\A t \in Threads :
            (pc[t] = "on_lock" /\ pc'[t] # "on_lock" /\ recorder # NoPipe)
            => /\ pc'[t] = "idle"
               /\ last'[t] = OkUnit
               /\ pipes' = pipes
               /\ recorder' = recorder]_vars
    /\ [](\A p \in Created("record") :
            (pipes[p].obs # "none" /\ p # recorder)
            => \/ pipes[p].nullCalls = 1
               \/ \E t \in Threads : pc[t] \in Stopping /\ loc[t] = p)

\* C2 witness: a send-On has returned Ok(()) without creating a pipeline while
\* the slot holds one.
C2_Witness ==
    \E t \in Threads :
        /\ op[t] = "SendOn" /\ pc[t] = "idle" /\ last[t] = OkUnit
        /\ loc[t] = NoPipe
        /\ recorder # NoPipe

\* C3: a send-Off that finds the recorder slot empty returns Ok(()), calls
\* set_null_state on no pipeline and leaves the slot empty.
C3_IdempotentStop ==
    [][\A t \in Threads :
         (pc[t] = "off_lock" /\ pc'[t] # "off_lock" /\ recorder = NoPipe)
         => /\ pc'[t] = "idle"
            /\ last'[t] = OkUnit
            /\ pipes' = pipes
            /\ recorder' = NoPipe]_vars

\* C4: the live engine is constructed and started at most once, exactly once
\* when a fetch has succeeded, and every successful fetch of the live stream
\* returns the port held in the session slot.
C4_DescriptorReuse ==
    /\ Cardinality(Created("live")) <= 1
    /\ \A p \in Created("live") : pipes[p].plays <= 1
    /\ \A t \in Threads :
         (op[t] = "FetchLive" /\ pc[t] = "idle" /\ last[t].kind = "Ok")
         => /\ livestreamer = Html5Video(last[t].port)
            /\ \E p \in Created("live") : pipes[p].plays = 1

\* C4 witness: two threads have fetched the live stream successfully.
C4_Witness ==
    \E t, u \in Threads :
        /\ t # u
        /\ op[t] = "FetchLive" /\ pc[t] = "idle" /\ last[t].kind = "Ok"
        /\ op[u] = "FetchLive" /\ pc[u] = "idle" /\ last[u].kind = "Ok"
        /\ loc[t] # NoPipe /\ loc[u] = NoPipe

\* C5: once every request has returned, the recorder slot holds a pipeline
\* iff the last send to acquire the recorder mutex was On; and the slot never
\* holds a pipeline on which set_null_state was called, nor one that is not
\* the most recently created record pipeline.
C5_MutualExclusion ==
    /\ (\A t \in Threads : pc[t] = "idle")
       => /\ lastAcq = "On" => recorder # NoPipe
          /\ lastAcq = "Off" => recorder = NoPipe
    /\ recorder # NoPipe
       => /\ pipes[recorder].role = "record"
          /\ pipes[recorder].nullCalls = 0
          /\ \A p \in Created("record") : p <= recorder

\* C5 witness: a send-On and a send-Off issued by different threads have both
\* returned, the On last, after an earlier pipeline was stopped.
C5_Witness ==
    /\ \A t \in Threads : pc[t] = "idle"
    /\ \E t, u \in Threads :
         /\ t # u /\ op[t] = "SendOn" /\ StoppedBy(u, loc[u])
    /\ lastAcq = "On"
    /\ recorder # NoPipe /\ recorder # 1

\* C6: while a send-Off is about to stop the pipeline it took, the slot is
\* already empty; the slot is empty when that send-Off returns, whatever
\* set_null_state reported; and set_null_state is called at most once on a
\* pipeline.
C6_ClearedBeforeStop ==
    /\ [](\A t \in Threads :
            pc[t] \in Stopping
            => /\ recorder = NoPipe
               /\ pipes[loc[t]].nullCalls = 0
               /\ \A u \in Threads \ {t} : pc[u] \in Stopping => loc[u] # loc[t])
    /\ [](\A p \in PipeIds : pipes[p].nullCalls <= 1)
    /\ [][\A t \in Threads :
            (pc[t] \in Stopping /\ pc'[t] \notin Stopping)
            => recorder' = NoPipe]_vars

\* C6 witness: of two send-Off requests one took and stopped the pipeline, the
\* other found the slot empty.
C6_Witness ==
    \E t, u \in Threads :
        /\ t # u
        /\ StoppedBy(t, loc[t]) /\ pipes[loc[t]].nullCalls = 1
        /\ op[u] = "SendOff" /\ pc[u] = "idle" /\ loc[u] = NoPipe
        /\ last[u] = OkUnit
        /\ recorder = NoPipe

\* C7 as stated: a send-Off whose set_null_state failed returns an error.
C7_StopFailureReported ==
    \A t \in Threads :
        (StoppedBy(t, loc[t]) /\ pipes[loc[t]].nullFailed) => last[t].kind = "Err"

\* C7 as amended: a send-Off that found the slot Recording returns Ok(())
\* whatever set_null_state reported, failure included.
C7_StopResultDiscarded ==
    \A t \in Threads : StoppedBy(t, loc[t]) => last[t] = OkUnit

\* C7 witness: a send-Off has returned after set_null_state failed.
C7_Witness ==
    \E t \in Threads :
        /\ StoppedBy(t, loc[t])
        /\ pipes[loc[t]].nullFailed
        /\ recorder = NoPipe

\* C8 as stated: a send-On whose engine fails to start returns an error
\* without crashing and leaves the recorder mutex usable for a retry.
C8_StartFailureRecoverable ==
    /\ ~recPoisoned
    /\ \A t \in Threads : op[t] = "SendOn" => pc[t] # "panicked"

\* C9 as stated: a fetch of the live stream whose engine fails to start or to
\* report its port returns an error and leaves the session mutex usable.
C9_LiveFailureRecoverable ==
    /\ ~livePoisoned
    /\ \A t \in Threads : op[t] = "FetchLive" => pc[t] # "panicked"

\* C10 as stated: every fetch of the live stream and every send-On comes to
\* an end; the request thread never blocks forever.
C10_RequestsReturn ==
    \A t \in Threads :
        (op[t] \in {"FetchLive", "SendOn"} /\ pc[t] \notin {"idle", "panicked"})
        ~> (pc[t] \in {"idle", "panicked"})

\* C11 as stated: a send-On that started a record engine returns Ok(()) only
\* after play() was performed on its pipeline.
C11_OkAfterLaunch ==
    \A t \in Threads :
        (op[t] = "SendOn" /\ pc[t] = "idle" /\ last[t] = OkUnit /\ loc[t] # NoPipe)
        => pipes[loc[t]].plays >= 1

\* C12: no thread holds the live-session mutex and the recorder mutex at the
\* same time, and neither mutex gates the other: a thread waiting for the
\* recorder mutex can take its step whenever that mutex is free, whoever
\* holds the session mutex (a fetch blocked in rx.recv() included), and a
\* thread waiting for the session mutex can take its step whenever that one
\* is free, whoever holds the recorder mutex.
C12_Independent ==
    /\ \A t \in Threads : ~(liveLock = t /\ recLock = t)
    /\ \A u \in Threads :
         (pc[u] \in {"on_lock", "off_lock", "fr_lock"} /\ recLock = NoThread)
            => ENABLED Step(u)
    /\ \A u \in Threads :
         (pc[u] = "fl_lock" /\ liveLock = NoThread) => ENABLED Step(u)

\* A fetch of the live stream waits for a port that never comes (the play()
\* of its pipeline hangs) with the session mutex held, and a fetch of the
\* recording channel issued by another thread has returned meanwhile.
C12_Witness ==
    \E t, u \in Threads :
        /\ t # u
        /\ pc[t] = "fl_recv" /\ liveLock = t
        /\ pipes[loc[t]].obs = "o_hung"
        /\ op[u] = "FetchRec" /\ pc[u] = "idle" /\ last[u].kind = "Ok"

\* C13: a send to the recording channel of a value that is neither On nor Off
\* returns the type-mismatch error for that channel and leaves the recording
\* slot, the live session slot and every pipeline as they were.
C13_TypeMismatch ==
    [][\A t \in Threads :
         (nReq' # nReq /\ op'[t] = "SendBad" /\ pc[t] = "idle" /\ pc'[t] = "idle")
            => /\ last'[t] = Err("TypeError")
               /\ "rec" \in res'[t]
               /\ recorder' = recorder
               /\ livestreamer' = livestreamer
               /\ pipes' = pipes]_vars

\* The type-mismatch error was returned while a recording is running.
C13_Witness ==
    \E t \in Threads :
        /\ op[t] = "SendBad" /\ pc[t] = "idle"
        /\ last[t] = Err("TypeError")
        /\ recorder # NoPipe
        /\ pipes[recorder].state = "playing"

\* C14: a fetch of an id that is neither the live-stream id nor the recording
\* id, and a send to an id other than the recording id, yield
\* OperationNotSupported for that id and change neither slot.
C14_NotSupported ==
    [][\A t \in Threads :
         (nReq' # nReq /\ op'[t] \in {"FetchOther", "SendOther"}
             /\ pc[t] = "idle" /\ pc'[t] = "idle")
            => /\ last'[t] = Err("OperationNotSupported")
               /\ "other" \in res'[t]
               /\ recorder' = recorder
               /\ livestreamer' = livestreamer
               /\ pipes' = pipes]_vars

\* A send to another id was refused while both slots are in use.
C14_Witness ==
    \E t \in Threads :
        /\ op[t] = "SendOther" /\ pc[t] = "idle"
        /\ last[t] = Err("OperationNotSupported")
        /\ recorder # NoPipe
        /\ livestreamer # NoVideo

\* C15: whenever a request thread is between two entries of its batch or
\* has left the batch, whatever the outcome of its entries, the results
\* collected for the batch have exactly one entry per channel id handed to
\* the closure so far: no failure of an entry aborts the batch.
C15_OneResultPerEntry ==
    \A t \in Threads : pc[t] \in {"idle", "panicked"} => res[t] = asked[t]

\* C16: every fetch of the recording channel that leaves its read of the
\* recorder mutex returns On if the slot holds a pipeline at that moment and
\* Off if it is empty, and changes neither slot nor any pipeline.
C16_StatusPureRead ==
    [][\A t \in Threads :
         (pc[t] = "fr_lock" /\ pc'[t] # "fr_lock")
            => /\ pc'[t] = "idle"
               /\ last'[t] = OkValue(IF recorder = NoPipe THEN "Off" ELSE "On")
               /\ recorder' = recorder
               /\ livestreamer' = livestreamer
               /\ pipes' = pipes]_vars

\* C17: an error or end-of-stream message ends the observer of that pipeline
\* and changes neither slot nor the state of the pipeline; an ended observer
\* takes no further step; the slots are emptied by a send Off only, so with
\* the observer of the stored pipeline ended the recording channel still
\* reads On and the live channel still returns the cached descriptor.
C17_ObserverExitSilent ==
    [][/\ \A p \in PipeIds :
            (pipes[p].obs = "o_loop" /\ pipes'[p].obs # "o_loop")
               => /\ pipes'[p].obs = "o_done"
                  /\ pipes'[p].state = pipes[p].state
                  /\ recorder' = recorder
                  /\ livestreamer' = livestreamer
       /\ \A p \in PipeIds :
            pipes[p].obs = "o_done" => pipes'[p].obs = "o_done"
       /\ (recorder # NoPipe /\ recorder' # recorder)
             => \E t \in Threads : pc[t] = "off_lock" /\ pc'[t] = "off_stop"
       /\ \A t \in Threads :
            (pc[t] = "fr_lock" /\ pc'[t] = "idle"
                /\ recorder # NoPipe /\ pipes[recorder].obs = "o_done")
               => last'[t] = OkValue("On")
       /\ \A t \in Threads :
            (pc[t] = "fl_lock" /\ pc'[t] = "idle" /\ livestreamer # NoVideo)
               => last'[t] = OkVideo(livestreamer)
      ]_vars

\* The observer of the stored record pipeline has ended and a fetch of the
\* recording channel has returned On.
C17_Witness ==
    \E t \in Threads :
        /\ recorder # NoPipe
        /\ pipes[recorder].obs = "o_done"
        /\ op[t] = "FetchRec" /\ pc[t] = "idle"
        /\ last[t] = OkValue("On")

\* C18: once the live session slot holds a descriptor, every step leaves
\* that descriptor in the slot, and every fetch of the live stream that
\* takes the session mutex returns that descriptor at once, creating and
\* changing no pipeline and leaving the recording slot alone.
C18_NoLiveTeardown ==
    [][livestreamer # NoVideo
         => /\ livestreamer' = livestreamer
            /\ \A t \in Threads :
                 (pc[t] = "fl_lock" /\ pc'[t] # "fl_lock")
                    => /\ pc'[t] = "idle"
                       /\ last'[t] = OkVideo(livestreamer)
                       /\ pipes' = pipes
                       /\ recorder' = recorder]_vars

\* The descriptor is still in the slot and was returned by a fetch, after a
\* send Off took a record pipeline out of its slot and the observer of the
\* live pipeline ended.
C18_Witness ==
    \E t, u \in Threads, p \in PipeIds :
        /\ livestreamer # NoVideo
        /\ op[t] = "FetchLive" /\ pc[t] = "idle"
        /\ last[t] = OkVideo(livestreamer)
        /\ StoppedBy(u, loc[u])
        /\ pipes[p].role = "live" /\ pipes[p].obs = "o_done"

\* C19: whenever the recording slot is empty and no request holds the
\* recorder mutex, no record pipeline whose set_null_state() succeeded is
\* playing: a pipeline removed by a send Off that has returned is not running,
\* whenever its observer thread performs its play().
C19_StoppedStaysStopped ==
    (recorder = NoPipe /\ recLock = NoThread)
       => \A p \in Created("record") :
             ~pipes[p].nullFailed => pipes[p].state # "playing"

\* The wait-for graph: request thread t is node t, the observer of pipeline
\* p is node -p, 0 is no node. WaitsFor(n) is the node that holds the mutex
\* (or the sender of the channel) n is blocked on, 0 if n is not blocked.
WaitNodes == Threads \cup {-p : p \in PipeIds}

WaitsFor(n) ==
    IF n \in Threads
      THEN CASE pc[n] \in {"on_lock", "off_lock", "fr_lock"} -> recLock
             [] pc[n] = "fl_lock" -> liveLock
             [] pc[n] = "off_stop" ->
                  IF pipes[loc[n]].inner = Observer THEN -loc[n]
                  ELSE pipes[loc[n]].inner
             [] pc[n] = "fl_recv" ->
                  IF pipes[loc[n]].chan = <<>> /\ pipes[loc[n]].tx
                    THEN -loc[n] ELSE 0
             [] OTHER -> 0
      ELSE IF pipes[-n].obs = "o_start" /\ pipes[-n].inner \in Threads
             THEN pipes[-n].inner ELSE 0

\* The node at the end of the chain of waits that starts at n, 0 if the chain
\* does not end within k nodes (it runs into a cycle).
RECURSIVE WaitEnd(_, _)
WaitEnd(n, k) ==
    IF k = 0 THEN 0
    ELSE IF WaitsFor(n) = 0 THEN n
    ELSE WaitEnd(WaitsFor(n), k - 1)

\* C20: no reachable state is a deadlock: the chain of waits of every blocked
\* thread ends, without a cycle, at a request thread that can take a step or
\* at an observer that can take a step or is inside play(); observers never
\* hold the recorder or the session mutex, and an observer that reads bus
\* events (or has ended) does not hold the inner mutex of its pipeline.
C20_DeadlockFree ==
    /\ \A n \in WaitNodes :
         WaitsFor(n) # 0
            => LET m == WaitEnd(n, NumThreads + MaxRequests + 1)
               IN  /\ m # 0
                   /\ m \in Threads => ENABLED Step(m)
                   /\ m \notin Threads
                        => pipes[-m].obs = "o_hung" \/ ENABLED ObsStep(-m)
    /\ recLock \in Threads \cup {NoThread}
    /\ liveLock \in Threads \cup {NoThread}
    /\ \A p \in PipeIds :
         pipes[p].obs \in {"o_loop", "o_done"} => pipes[p].inner # Observer

\* A request waits for the recorder mutex held by a send Off, which waits for
\* the inner mutex held by the observer in play().
C20_Witness ==
    \E t, u \in Threads :
        /\ pc[t] = "off_stop" /\ pipes[loc[t]].inner = Observer
        /\ pipes[loc[t]].obs = "o_play"
        /\ WaitsFor(u) = t

====
